---------------------------- MODULE Spec2Model ----------------------------
(***************************************************************************)
(* Launcher of ros_sugar (src/ros_sugar/launch/launcher.py): registration  *)
(* of components and events/actions (add_pkg), the bringup sequence, the   *)
(* resolution of component actions (_get_action_launch_entity) and the     *)
(* dispatch of a triggered event to the holders of its actions.            *)
(*                                                                         *)
(* Python values are modelled as follows.  None and the empty list are     *)
(* both the empty sequence where the code only tests truthiness.  A dict   *)
(* is a sequence of [key, val] records in insertion order.  A list object  *)
(* that the caller passes lives in the heap `lists`; `components` is the   *)
(* reference self.components (0: the list made by __init__).               *)
(***************************************************************************)
EXTENDS Naturals, Sequences, FiniteSets

(***************************************************************************)
(* Bounds of the model.                                                    *)
(***************************************************************************)
MaxCalls == 2

MaxTriggers == 1

\* failures reported per component
MaxFailures == 3

\* requests sent by the clients of the bridge
MaxRequests == 2

(***************************************************************************)
(* The objects of a run: component objects, event objects, actions.        *)
(***************************************************************************)
Component == {"c1", "c2", "c3", "c4"}

\* BaseComponent.node_name: c1 and c3 are two component objects with one name.
node_name(c) ==
    CASE c = "c1" -> "A" [] c = "c2" -> "B" [] c = "c4" -> "D" [] OTHER -> "A"

\* issubclass(component.__class__, ManagedEntity)
is_managed_entity(c) == c # "c2"

\* component._external_processors: key -> list of processing functions
external_processors(c) ==
    CASE c = "c1" -> << [key |-> "k1", val |-> << "f1", "f2" >>] >>
      [] c = "c2" -> << >>
      [] c = "c4" -> << [key |-> "k1", val |-> << "f1", "f2", "f3" >>],
                        [key |-> "k2", val |-> << "f1", "f2", "f3" >>] >>
      [] OTHER -> << [key |-> "k2", val |-> << "f1" >>] >>

Event == {"e1", "e2", "e3"}

\* Event.name: e1 and e3 are two event objects with one name.
event_name(e) == CASE e = "e1" -> "E1" [] e = "e2" -> "E2" [] OTHER -> "E1"

\* r*: ROS launch actions; a*: Actions bound to a component method;
\* m1: an Action of the monitor; p1: an Action on a plain function.
ActionId == {"r1", "r2", "a1", "a2", "a3", "m1", "p1"}

\* isinstance(action, ROSLaunchAction)
is_ros_launch_action(a) == a \in {"r1", "r2"}

\* Action.component_action
component_action(a) == a \in {"a1", "a2", "a3"}

\* Action.monitor_action
monitor_action(a) == a = "m1"

\* action.executable.__self__ of a component action
executable_self(a) == CASE a = "a1" -> "c1" [] a = "a2" -> "c2" [] OTHER -> "c3"

\* Action.action_name of a component action: the name of the bound method
action_name(a) == CASE a = "a1" -> "restart" [] a = "a2" -> "stop" [] OTHER -> "start"

\* Action.parent_component: the node name of the component that owns the method
parent_component(a) == node_name(executable_self(a))

(***************************************************************************)
(* Sequences, lists and dicts.                                             *)
(***************************************************************************)
Range(s) == {s[i] : i \in 1..Len(s)}

\* list.count(x)
Count(s, x) == Cardinality({i \in 1..Len(s) : s[i] = x})

\* [x] * n
Repeat(x, n) == [i \in 1..n |-> x]

\* list(d.keys())
DictKeys(d) == [i \in 1..Len(d) |-> d[i].key]

DictHas(d, k) == \E i \in 1..Len(d) : d[i].key = k

\* d.get(k): the empty sequence stands for None
DictGet(d, k) ==
    IF DictHas(d, k)
    THEN d[CHOOSE i \in 1..Len(d) : d[i].key = k].val
    ELSE << >>

\* d[k] = v: an existing key keeps its place
DictSet(d, k, v) ==
    IF DictHas(d, k)
    THEN [i \in 1..Len(d) |-> IF d[i].key = k THEN [key |-> k, val |-> v] ELSE d[i]]
    ELSE Append(d, [key |-> k, val |-> v])

\* dict.update(pairs): an existing key keeps its place and takes the new value
RECURSIVE DictUpdate(_, _)
DictUpdate(d, pairs) ==
    IF pairs = << >> THEN d
    ELSE DictUpdate(DictSet(d, Head(pairs).key, Head(pairs).val), Tail(pairs))

(***************************************************************************)
(* State of the launcher and of what it drives.                            *)
(***************************************************************************)
VARIABLES
    enable_monitoring,      \* Launcher.__enable_monitoring
    msgpack_installed,      \* whether msgpack and msgpack_numpy can be imported
    lists,                  \* heap of the list objects passed as `components`
    components,             \* self.components: 0 (own empty list) or a heap slot
    pkg_executable,         \* self._pkg_executable
    components_to_activate_on_start, \* dict component -> run_in_process
    ros_actions,            \* self._ros_actions: dict event -> list
    components_actions,     \* self._components_actions: dict event -> list
    monitor_actions,        \* self._monitor_actions: dict event -> list
    internal_events,        \* self._internal_events (empty: None)
    monitor_node,           \* self.monitor_node, as the Monitor was built
    description,            \* self._description: the launch description
    launch_group,           \* self._launch_group
    comp_events_actions,    \* component.events_actions of each component object
    thread_pool,            \* self.thread_pool: created or not, tasks submitted
    sockets,                \* socket files bound and listening
    files,                  \* socket files that exist in /tmp
    ls,                     \* the launch service self.ls
    pc,                     \* where the caller of the launcher stands
    idx,                    \* loop index of bringup over self.components
    last,                   \* the last call: operation, arguments, outcome
    registered,             \* history: the (event, action) pairs add_pkg accepted
    calls,                  \* history: number of add_pkg calls
    triggers,               \* history: number of event triggers
    triggered,              \* the event being dispatched (empty: none)
    pending,                \* per executor, the actions it has still to run
    executed,               \* history: the actions run for the trigger, in order
    fallback_policy,        \* per component, the fallback set by on_fail
    reported,               \* per component, the number of failures reported
    handled,                \* per component, the decision taken on each failure
    invoked,                \* per component, the fallback actions run to the end
    requested,              \* history: per component, the on_fail call that set
                            \* its fallback
    workers,                \* per task of the thread pool, the thread that runs
                            \* __listen_for_external_processing
    conns,                  \* per task, the connection of the client to its socket
    removed,                \* history: the socket files os.remove was called on
    stale,                  \* history: the socket files left in /tmp before bringup
    requests,               \* history: number of requests the clients have sent
    history                 \* history: the add_pkg calls made, with their outcome

vars == << enable_monitoring, msgpack_installed, lists, components,
           pkg_executable, components_to_activate_on_start, ros_actions,
           components_actions, monitor_actions, internal_events, monitor_node,
           description, launch_group, comp_events_actions, thread_pool,
           sockets, files, ls, pc, idx, last, registered, calls, triggers,
           triggered, pending, executed, fallback_policy, reported, handled,
           invoked, requested, workers, conns, removed, stale, requests,
           history >>

\* the state of the fallbacks of the components
fallback_vars == << fallback_policy, reported, handled, invoked, requested >>

\* the state of the bridge to the external processors
bridge_vars == << workers, conns, removed, stale, requests >>

\* what the launcher holds once bringup has set up the components
setup_vars ==
    << enable_monitoring, msgpack_installed, lists, components, pkg_executable,
       components_to_activate_on_start, ros_actions, components_actions,
       monitor_actions, internal_events, monitor_node, description,
       launch_group, comp_events_actions, thread_pool, sockets, files, idx,
       last, registered, calls, history >>

\* the state of the dispatch of a triggered event
dispatch_vars == << triggers, triggered, pending, executed >>

\* the contents of self.components
Components == IF components = 0 THEN << >> ELSE lists[components]

NoError == [raised |-> "None", component |-> "None", event |-> "None"]

ValueError(what) == [raised |-> "ValueError", component |-> what, event |-> "None"]

InvalidAction(c, e) == [raised |-> "InvalidAction", component |-> c, event |-> e]

(***************************************************************************)
(* add_pkg and its helpers.                                                *)
(***************************************************************************)
update_dict_list_replace(dictionary, name, value) ==
    DictSet(dictionary, name, << value >>)

\* Launcher.__update_dict_list
update_dict_list(dictionary, name, value) ==
    IF DictGet(dictionary, name) # << >>
    THEN DictSet(dictionary, name, Append(DictGet(dictionary, name), value))
    ELSE DictSet(dictionary, name, << value >>)

\* raw_action if isinstance(raw_action, list) else [raw_action]
action_set(raw_action) ==
    IF raw_action.is_list THEN raw_action.items ELSE << raw_action.item >>

\* the (condition, action) pairs in the order the two loops of
\* __rewrite_actions_for_components visit them
RECURSIVE Flatten(_)
Flatten(actions_dict) ==
    IF actions_dict = << >> THEN << >>
    ELSE LET set == action_set(Head(actions_dict).val)
         IN  [i \in 1..Len(set) |->
                 [event |-> Head(actions_dict).key, action |-> set[i]]]
             \o Flatten(Tail(actions_dict))

is_known_component_lt(components_list, action_object) ==
    ~ (Count(components_list, action_object) < 0)

\* components_list.count(action_object) <= 0 is false
is_known_component(components_list, action_object) ==
    ~ (Count(components_list, action_object) <= 0)

\* Launcher.__rewrite_actions_for_components, from the state t of the three
\* tables; t.done counts the actions visited before the loop ended or raised
RECURSIVE rewrite_actions_for_components(_, _, _)
rewrite_actions_for_components(components_list, flat, t) ==
    IF flat = << >> THEN t
    ELSE LET condition == Head(flat).event
             action == Head(flat).action
         IN  IF is_ros_launch_action(action)
             THEN rewrite_actions_for_components(components_list, Tail(flat),
                      [t EXCEPT !.ros = update_dict_list(@, condition, action),
                                !.done = @ + 1])
             ELSE IF component_action(action)
             THEN IF ~ is_known_component(components_list, executable_self(action))
                  THEN [t EXCEPT !.error =
                            InvalidAction(executable_self(action), condition)]
                  ELSE rewrite_actions_for_components(components_list, Tail(flat),
                           [t EXCEPT !.comp = update_dict_list(@, condition, action),
                                     !.done = @ + 1])
             ELSE IF monitor_action(action)
             THEN rewrite_actions_for_components(components_list, Tail(flat),
                      [t EXCEPT !.mon = update_dict_list(@, condition, action),
                                !.done = @ + 1])
             ELSE rewrite_actions_for_components(components_list, Tail(flat),
                      [t EXCEPT !.done = @ + 1])

missing_package_both(a) ==
    a.multiprocessing
    /\ (a.package_name = "None" /\ a.executable_entry_point = "None")

\* multiprocessing and (not package_name or not executable_entry_point)
missing_package(a) ==
    a.multiprocessing
    /\ (a.package_name = "None" \/ a.executable_entry_point = "None")

\* Launcher.add_pkg, called with the arguments a and the list object l as
\* `components` (l = Len(lists) + 1: a list the caller has just made).  An
\* exception leaves what the call had already assigned.  The closing loop
\* that configures the components from the config file changes nothing of
\* the launcher.
add_pkg_call(a, l) ==
    /\ calls < MaxCalls
    /\ l \in 1..(Len(lists) + 1)
    /\ l <= Len(lists) => a.components = lists[l]
    /\ calls' = calls + 1
    /\ IF missing_package(a)
       THEN /\ last' = [op |-> "add_pkg", args |-> a, error |-> ValueError("package")]
            /\ history' = Append(history,
                               [args |-> a, error |-> ValueError("package")])
            /\ UNCHANGED << lists, components, pkg_executable,
                            components_to_activate_on_start, ros_actions,
                            components_actions, monitor_actions, registered >>
       ELSE LET package_name ==
                    IF ~ a.multiprocessing THEN "None" ELSE a.package_name
                executable_entry_point ==
                    IF ~ a.multiprocessing THEN "None" ELSE a.executable_entry_point
                heap == IF l > Len(lists) THEN Append(lists, a.components) ELSE lists
                extended ==
                    IF Components = << >> THEN heap
                    ELSE [heap EXCEPT ![components] = @ \o heap[l]]
                \* what the parameter `components` holds once self.components
                \* has been extended
                passed == extended[l]
                to_activate ==
                    IF a.components_to_activate_on_start # << >>
                    THEN a.components_to_activate_on_start
                    ELSE IF a.activate_all_components_on_start THEN passed
                    ELSE << >>
                flat == IF a.events_actions # << >> /\ enable_monitoring
                        THEN Flatten(a.events_actions) ELSE << >>
                t == rewrite_actions_for_components(passed, flat,
                        [ros |-> ros_actions, comp |-> components_actions,
                         mon |-> monitor_actions, done |-> 0, error |-> NoError])
            IN  /\ lists' = extended
                /\ components' = IF Components = << >> THEN l ELSE components
                /\ pkg_executable' =
                       IF Components = << >>
                       THEN Repeat(<< package_name, executable_entry_point >>,
                                   Len(passed))
                       ELSE pkg_executable
                            \o Repeat(<< package_name, executable_entry_point >>,
                                      Len(passed))
                /\ components_to_activate_on_start' =
                       DictUpdate(components_to_activate_on_start,
                           [i \in 1..Len(to_activate) |->
                               [key |-> to_activate[i], val |-> a.multiprocessing]])
                /\ ros_actions' = t.ros
                /\ components_actions' = t.comp
                /\ monitor_actions' = t.mon
                /\ registered' = registered \o SubSeq(flat, 1, t.done)
                /\ last' = [op |-> "add_pkg", args |-> a, error |-> t.error]
                /\ history' = Append(history, [args |-> a, error |-> t.error])
    /\ UNCHANGED << bridge_vars, fallback_vars, enable_monitoring, msgpack_installed, internal_events,
                    monitor_node, description, launch_group, comp_events_actions,
                    thread_pool, sockets, files, ls, pc, idx, triggers,
                    triggered,
                    pending, executed >>

\* add_pkg called by the program that builds the launcher, before bringup
add_pkg(a, l) == pc = "setup" /\ add_pkg_call(a, l)

\* add_pkg called while bringup is under way: from another thread, or from
\* a method that add_method gave the launch service to run
add_pkg_in_run(a, l) ==
    pc \in {"add_components", "running"} /\ add_pkg_call(a, l)

(***************************************************************************)
(* Launch entities and the lifecycle action handlers.                      *)
(***************************************************************************)
Entity(type, action, node, transitions) ==
    [type |-> type, action |-> action, node |-> node, transitions |-> transitions]

\* Launcher.start
start(name) ==
    << Entity("LifecycleTransition", "None", name, << "configure", "activate" >>) >>

\* Launcher.stop
stop(name) ==
    << Entity("LifecycleTransition", "None", name, << "deactivate" >>) >>

restart_activate_first(name) ==
    << Entity("LifecycleTransition", "None", name, << "activate", "deactivate" >>) >>

\* Launcher.restart
restart(name) ==
    << Entity("LifecycleTransition", "None", name, << "deactivate", "activate" >>) >>

\* the names getattr(self, name) finds on a Launcher
LauncherAttribute ==
    {"start", "stop", "restart", "add_pkg", "bringup", "configure", "on_fail",
     "add_method", "add_py_executable", "fallback_rate", "components",
     "thread_pool", "monitor_node"}

\* has_decorator(getattr(self, name), "action_handler")
has_decorator(name) == name \in {"start", "stop", "restart"}

\* the loop `for comp in self.components: if comp.node_name == name: break`:
\* the value of comp after it (empty: None)
loop_component(comps, name) ==
    IF comps = << >> THEN << >>
    ELSE IF \E i \in 1..Len(comps) : node_name(comps[i]) = name
    THEN << comps[CHOOSE i \in 1..Len(comps) :
                /\ node_name(comps[i]) = name
                /\ \A j \in 1..(i - 1) : node_name(comps[j]) # name] >>
    ELSE << comps[Len(comps)] >>

NotInvoked == [handler |-> "None", node_name |-> "None", component |-> "None"]

\* the lookup of the component and the call of the handler at the end of
\* Launcher._get_action_launch_entity
InvokeHandler(action, comps) ==
    LET comp == loop_component(comps, action.parent_component)
    IN  IF comp = << >>
        THEN [error |-> InvalidAction(action.parent_component, "None"),
              entities |-> << >>, invoked |-> NotInvoked]
        ELSE [error |-> NoError,
              entities |->
                  CASE action.action_name = "start" ->
                           start(action.parent_component)
                    [] action.action_name = "stop" ->
                           stop(action.parent_component)
                    [] OTHER -> restart(action.parent_component),
              invoked |-> [handler |-> action.action_name,
                           node_name |-> action.parent_component,
                           component |-> comp[1]]]

get_action_launch_entity_unchecked(action, comps) ==
    IF action.action_name \notin LauncherAttribute
    THEN [error |-> InvalidAction(action.parent_component, "None"),
          entities |-> << >>, invoked |-> NotInvoked]
    ELSE InvokeHandler(action, comps)

\* Launcher._get_action_launch_entity for an action with the given
\* action_name and parent_component, over the component list comps
get_action_launch_entity(action, comps) ==
    IF action.action_name \notin LauncherAttribute
    THEN [error |-> InvalidAction(action.parent_component, "None"),
          entities |-> << >>, invoked |-> NotInvoked]
    ELSE IF ~ has_decorator(action.action_name)
    THEN [error |-> InvalidAction(action.action_name, "None"),
          entities |-> << >>, invoked |-> NotInvoked]
    ELSE InvokeHandler(action, comps)

\* the Action record of a registered component action
ActionRecord(a) ==
    [action_name |-> action_name(a), parent_component |-> parent_component(a)]

(***************************************************************************)
(* bringup: the monitor node and the handlers of the internal events.      *)
(***************************************************************************)
\* Launcher._activate_components_action
RECURSIVE activate_components_action(_)
activate_components_action(to_activate) ==
    IF to_activate = << >> THEN << >>
    ELSE (IF Head(to_activate).val
          THEN start(node_name(Head(to_activate).key))
          ELSE << Entity("OpaqueFunction", "start",
                         node_name(Head(to_activate).key), << >>) >>)
         \o activate_components_action(Tail(to_activate))

\* the entities of one event in Launcher._setup_internal_events_handlers:
\* r.entities after the inner loop over action_set, r.error if it raised
RECURSIVE event_entities(_, _, _, _)
event_entities(action_list, nodes_in_processes, comps, r) ==
    IF action_list = << >> THEN r
    ELSE LET action == Head(action_list)
         IN  IF is_ros_launch_action(action)
             THEN event_entities(Tail(action_list), nodes_in_processes, comps,
                      [r EXCEPT !.entities =
                          Append(@, Entity("ROSLaunchAction", action, "None", << >>))])
             ELSE IF component_action(action) /\ nodes_in_processes
             THEN LET got == get_action_launch_entity(ActionRecord(action), comps)
                  IN  IF got.error.raised # "None"
                      THEN [r EXCEPT !.error = got.error]
                      ELSE event_entities(Tail(action_list), nodes_in_processes,
                               comps, [r EXCEPT !.entities = @ \o got.entities])
             ELSE event_entities(Tail(action_list), nodes_in_processes, comps,
                      [r EXCEPT !.entities =
                          Append(@, Entity("OpaqueFunction", action, "None", << >>))])

\* Launcher._setup_internal_events_handlers: the handlers it adds to the
\* launch description d, one per event of the table, until one raises
RECURSIVE setup_internal_events_handlers(_, _, _, _)
setup_internal_events_handlers(table, nodes_in_processes, comps, d) ==
    IF table = << >> THEN d
    ELSE LET r == event_entities(Head(table).val, nodes_in_processes, comps,
                      [entities |-> << Entity("LogInfo", "None", "None", << >>) >>,
                       error |-> NoError])
         IN  IF r.error.raised # "None"
             THEN [d EXCEPT !.error = r.error]
             ELSE setup_internal_events_handlers(Tail(table), nodes_in_processes,
                      comps,
                      [d EXCEPT !.description = Append(@,
                          [type |-> "RegisterEventHandler",
                           internal_event_name |-> event_name(Head(table).key),
                           entities |-> r.entities])])

\* len(set(self._internal_event_names)) != len(self._internal_event_names)
has_duplicate_event_names(names) == Cardinality(Range(names)) # Len(names)

has_duplicate_names_gt(components_names) ==
    Cardinality(Range(components_names)) > Len(components_names)

\* len(set(components_names)) != len(components_names)
has_duplicate_names(components_names) ==
    Cardinality(Range(components_names)) # Len(components_names)

NoMonitor ==
    [built |-> FALSE, components_names |-> << >>, events_actions |-> << >>,
     events_to_emit |-> << >>, activate_on_start |-> << >>]

\* Launcher._setup_monitor_node: the values of _internal_events, monitor_node
\* and _description when it returns or raises (error)
setup_monitor_node(nodes_in_processes) ==
    LET events == IF ros_actions # << >> THEN DictKeys(ros_actions)
                  ELSE internal_events
        names == [i \in 1..Len(events) |-> event_name(events[i])]
        components_names == [i \in 1..Len(Components) |-> node_name(Components[i])]
        monitor == [built |-> TRUE,
                    components_names |-> components_names,
                    events_actions |-> monitor_actions,
                    events_to_emit |-> events,
                    activate_on_start |-> DictKeys(components_to_activate_on_start)]
        d0 == description
              \o << [type |-> "ComponentLaunchAction",
                     internal_event_name |-> "None", entities |-> << >>],
                    [type |-> "RegisterEventHandler",
                     internal_event_name |-> "activate_all",
                     entities |-> activate_components_action(
                                      components_to_activate_on_start)] >>
        d == setup_internal_events_handlers(ros_actions, nodes_in_processes,
                 Components, [description |-> d0, error |-> NoError])
    IN  IF ros_actions # << >> /\ has_duplicate_event_names(names)
        THEN [internal_events |-> events, monitor_node |-> monitor_node,
              description |-> description, error |-> ValueError("events")]
        ELSE IF has_duplicate_names(components_names)
        THEN [internal_events |-> events, monitor_node |-> monitor_node,
              description |-> description, error |-> ValueError("components")]
        ELSE [internal_events |-> events, monitor_node |-> monitor,
              description |-> d.description, error |-> d.error]

\* Launcher._setup_component_events_handlers: comp.events_actions afterwards
RECURSIVE component_events_handlers(_, _, _)
component_events_handlers(comp, flat, comp_dict) ==
    IF flat = << >> THEN comp_dict
    ELSE component_events_handlers(comp, Tail(flat),
             IF node_name(comp) = parent_component(Head(flat).action)
             THEN update_dict_list(comp_dict, Head(flat).event, Head(flat).action)
             ELSE comp_dict)

\* the (event, action) pairs of a table in the order of its two loops
RECURSIVE TablePairs(_)
TablePairs(table) ==
    IF table = << >> THEN << >>
    ELSE [i \in 1..Len(Head(table).val) |->
             [event |-> Head(table).key, action |-> Head(table).val[i]]]
         \o TablePairs(Tail(table))

setup_component_events_handlers(comp) ==
    IF components_actions = << >> THEN comp_events_actions[comp]
    ELSE LET comp_dict == component_events_handlers(comp,
                              TablePairs(components_actions), << >>)
         IN  IF comp_dict # << >> THEN comp_dict ELSE comp_events_actions[comp]

\* Launcher.bringup up to and including the loop over
\* _setup_component_events_handlers (setproctitle and the configuration of
\* the components change nothing of the launcher)
bringup ==
    /\ pc = "setup"
    /\ IF Components = << >>
       THEN /\ pc' = "failed"
            /\ last' = [op |-> "bringup", args |-> << >>,
                        error |-> ValueError("no components")]
            /\ UNCHANGED << internal_events, monitor_node, description,
                            comp_events_actions >>
       ELSE LET m == setup_monitor_node(TRUE)
            IN  /\ internal_events' = m.internal_events
                /\ monitor_node' = m.monitor_node
                /\ description' = m.description
                /\ last' = [op |-> "bringup", args |-> << >>, error |-> m.error]
                /\ IF m.error.raised # "None"
                   THEN /\ pc' = "failed"
                        /\ UNCHANGED comp_events_actions
                   ELSE /\ pc' = "add_components"
                        /\ comp_events_actions' =
                               [c \in Component |->
                                   IF c \in Range(Components)
                                   THEN setup_component_events_handlers(c)
                                   ELSE comp_events_actions[c]]
    /\ idx' = 1
    /\ UNCHANGED << bridge_vars, fallback_vars, enable_monitoring, msgpack_installed, lists, components,
                    pkg_executable, components_to_activate_on_start, ros_actions,
                    components_actions, monitor_actions, launch_group,
                    thread_pool, sockets, files, ls, registered, calls,
                    triggers, triggered, pending, executed, history >>

(***************************************************************************)
(* bringup: one launch entity per component, then the launch service.      *)
(***************************************************************************)
sock_file_without_key(comp, key, processor) ==
    << node_name(comp), processor, processor >>

\* f"/tmp/{component.node_name}_{key}_{processor.__name__}.socket"
sock_file(comp, key, processor) == << node_name(comp), key, processor >>

\* the (key, processor) pairs of component._external_processors in the order
\* of the two loops of _setup_external_processors
RECURSIVE Processors(_)
Processors(procs) ==
    IF procs = << >> THEN << >>
    ELSE [i \in 1..Len(Head(procs).val) |->
             [key |-> Head(procs).key, processor |-> Head(procs).val[i]]]
         \o Processors(Tail(procs))

setup_external_processors_unchecked(comp) ==
    LET todo == Processors(external_processors(comp))
        pool == IF ~ thread_pool.created
                THEN [thread_pool EXCEPT !.created = TRUE] ELSE thread_pool
        made == [i \in 1..Len(todo) |->
                    [file |-> sock_file(comp, todo[i].key, todo[i].processor),
                     func |-> todo[i].processor, component |-> comp]]
        made_files == {made[i].file : i \in 1..Len(made)}
    IN  IF external_processors(comp) = << >>
        THEN [thread_pool |-> thread_pool, sockets |-> sockets, files |-> files,
              removed |-> removed, error |-> NoError]
        ELSE [thread_pool |-> [pool EXCEPT !.tasks = @ \o made],
              sockets |-> sockets \o made,
              files |-> files \cup made_files,
              removed |-> removed \cup (files \cap made_files),
              error |-> NoError]

\* Launcher._setup_external_processors: thread pool, socket files, files
\* removed and bound sockets when it returns or raises (error)
setup_external_processors(comp) ==
    LET todo == Processors(external_processors(comp))
        pool == IF ~ thread_pool.created
                THEN [thread_pool EXCEPT !.created = TRUE] ELSE thread_pool
        made == [i \in 1..Len(todo) |->
                    [file |-> sock_file(comp, todo[i].key, todo[i].processor),
                     func |-> todo[i].processor, component |-> comp]]
        made_files == {made[i].file : i \in 1..Len(made)}
    IN  IF external_processors(comp) = << >>
        THEN [thread_pool |-> thread_pool, sockets |-> sockets, files |-> files,
              removed |-> removed, error |-> NoError]
        ELSE IF ~ msgpack_installed
        THEN [thread_pool |-> pool, sockets |-> sockets, files |-> files,
              removed |-> removed,
              error |-> [raised |-> "ModuleNotFoundError", component |-> comp,
                         event |-> "None"]]
        ELSE [thread_pool |-> [pool EXCEPT !.tasks = @ \o made],
              sockets |-> sockets \o made,
              files |-> files \cup made_files,
              removed |-> removed \cup (files \cap made_files),
              error |-> NoError]

\* os.cpu_count() of the host: the smallest host
cpu_count == 1

\* ThreadPoolExecutor(): max_workers defaults to min(32, os.cpu_count() + 4)
max_workers == IF cpu_count + 4 < 32 THEN cpu_count + 4 ELSE 32

\* a thread of the pool that has just been given its task, and the socket
\* it listens on
NewWorker == [state |-> "accept", received |-> << >>, sent |-> << >>]

\* a task submitted when the pool already has max_workers threads, none of
\* them idle: it waits in the queue of the pool
QueuedWorker == [state |-> "queued", received |-> << >>, sent |-> << >>]

NoConnection == [client |-> "none", inbox |-> << >>]

run_in_process_never(pkg_name, executable_name) ==
    pkg_name # "None" /\ executable_name = "None"

\* `if pkg_name and executable_name` in the loop of bringup
run_in_process(pkg_name, executable_name) ==
    pkg_name # "None" /\ executable_name # "None"

\* one turn of the loop of bringup over self.components:
\* _setup_component_in_process or _setup_component_in_thread
setup_component ==
    /\ pc = "add_components"
    /\ idx <= Len(Components)
    /\ LET component == Components[idx]
       IN  IF idx > Len(pkg_executable)
           THEN /\ pc' = "failed"
                /\ last' = [op |-> "bringup", args |-> << >>,
                            error |-> [raised |-> "IndexError",
                                       component |-> component, event |-> "None"]]
                /\ UNCHANGED << launch_group, thread_pool, sockets, files, idx,
                                workers, conns, removed >>
           ELSE LET pkg_name == pkg_executable[idx][1]
                    executable_name == pkg_executable[idx][2]
                IN  IF run_in_process(pkg_name, executable_name)
                    THEN LET x == setup_external_processors(component)
                         IN  /\ thread_pool' = x.thread_pool
                             /\ sockets' = x.sockets
                             /\ files' = x.files
                             /\ removed' = x.removed
                             /\ workers' =
                                    [i \in 1..Len(x.thread_pool.tasks) |->
                                        IF i <= Len(workers) THEN workers[i]
                                        ELSE IF i <= max_workers THEN NewWorker
                                        ELSE QueuedWorker]
                             /\ conns' =
                                    [i \in 1..Len(x.thread_pool.tasks) |->
                                        IF i <= Len(conns) THEN conns[i]
                                        ELSE NoConnection]
                             /\ IF x.error.raised # "None"
                                THEN /\ pc' = "failed"
                                     /\ last' = [op |-> "bringup", args |-> << >>,
                                                 error |-> x.error]
                                     /\ UNCHANGED << launch_group, idx >>
                                ELSE /\ launch_group' = Append(launch_group,
                                            [type |-> IF is_managed_entity(component)
                                                      THEN "LifecycleNode" ELSE "Node",
                                             component |-> component,
                                             name |-> node_name(component),
                                             package |-> pkg_name,
                                             executable |-> executable_name])
                                     /\ idx' = idx + 1
                                     /\ UNCHANGED << pc, last >>
                    ELSE /\ launch_group' = Append(launch_group,
                                [type |-> "ComponentLaunchAction",
                                 component |-> component,
                                 name |-> node_name(component),
                                 package |-> "None", executable |-> "None"])
                         /\ idx' = idx + 1
                         /\ UNCHANGED << thread_pool, sockets, files, pc, last,
                                         workers, conns, removed >>
    /\ UNCHANGED << stale, requests, fallback_vars, enable_monitoring,
                    msgpack_installed, lists, components,
                    pkg_executable, components_to_activate_on_start, ros_actions,
                    components_actions, monitor_actions, internal_events,
                    monitor_node, description, comp_events_actions, ls,
                    registered, calls, triggers, triggered, pending, executed, history >>

\* the end of the loop: the group action is added to the description and
\* Launcher._start_ros_launch runs the launch service
start_ros_launch ==
    /\ pc = "add_components"
    /\ idx > Len(Components)
    /\ description' = Append(description,
           [type |-> "GroupAction", internal_event_name |-> "None",
            entities |-> launch_group])
    /\ ls' = "running"
    /\ pc' = "running"
    /\ UNCHANGED << bridge_vars, fallback_vars, enable_monitoring, msgpack_installed, lists, components,
                    pkg_executable, components_to_activate_on_start, ros_actions,
                    components_actions, monitor_actions, internal_events,
                    monitor_node, launch_group, comp_events_actions, thread_pool,
                    sockets, files, idx, last, registered, calls, triggers,
                    triggered, pending, executed, history >>

\* the caller of add_pkg appends component c to a list object it has passed
caller_append(l, c) ==
    /\ pc = "setup"
    /\ l \in 1..Len(lists)
    /\ c \notin Range(lists[l])
    /\ lists' = [lists EXCEPT ![l] = Append(@, c)]
    /\ UNCHANGED << bridge_vars, fallback_vars, dispatch_vars, enable_monitoring,
                    msgpack_installed, components, pkg_executable,
                    components_to_activate_on_start, ros_actions,
                    components_actions, monitor_actions, internal_events,
                    monitor_node, description, launch_group, comp_events_actions,
                    thread_pool, sockets, files, ls, pc, idx, last, registered,
                    calls, history >>

\* an earlier run has left the socket file f in /tmp
leave_stale_file(f) ==
    /\ pc = "setup"
    /\ f \notin files
    /\ files' = files \cup {f}
    /\ stale' = stale \cup {f}
    /\ UNCHANGED << workers, conns, removed, requests, fallback_vars,
                    enable_monitoring, msgpack_installed, lists, components,
                    pkg_executable, components_to_activate_on_start, ros_actions,
                    components_actions, monitor_actions, internal_events,
                    monitor_node, description, launch_group, comp_events_actions,
                    thread_pool, sockets, ls, pc, idx, last, registered, calls,
                    triggers, triggered, pending, executed, history >>

(***************************************************************************)
(* The bridge at run time.  The clients of the sockets are the processes   *)
(* of the components, which exist while the launch service runs.  A value  *)
(* on the wire is the bytes msgpack makes of it; bytes that are no msgpack  *)
(* message have `packed` empty.                                            *)
(***************************************************************************)
\* a two-dimensional numeric array, a bytes object and a dict
ArrayValue == [kind |-> "ndarray", raw |-> "2x2", packed |-> << >>]

BytesValue == [kind |-> "bytes", raw |-> "b", packed |-> << >>]

DictValue == [kind |-> "dict", raw |-> "d", packed |-> << >>]

Payload == {ArrayValue, BytesValue, DictValue}

\* msgpack.packb(v)
packb(v) == [kind |-> "bytes", raw |-> "", packed |-> << v >>]

\* msgpack.unpackb(b) of the bytes of a msgpack message
unpackb(b) == b.packed[1]

\* func(data): f1 returns its argument, f2 an array computed from it
apply(func, data) == IF func = "f1" THEN data ELSE ArrayValue

\* whether conn.sendall(x) takes x: an object with the buffer interface
is_bytes_like(x) == x.kind \in {"bytes", "ndarray"}

\* the bytes conn.sendall(x) puts on the wire: the memory of x
buffer(x) == [kind |-> "bytes", raw |-> x.raw, packed |-> x.packed]

\* the process of a component connects to socket w
client_connect(w) ==
    /\ pc = "running"
    /\ w \in 1..Len(conns)
    /\ conns[w].client = "none"
    /\ conns' = [conns EXCEPT ![w].client = "connected"]
    /\ UNCHANGED << setup_vars, dispatch_vars, fallback_vars, workers, removed,
                    stale, requests, ls, pc >>

\* the client of socket w sends the value v as one msgpack message
client_send(w, v) ==
    /\ pc = "running"
    /\ w \in 1..Len(conns)
    /\ conns[w].client = "connected"
    /\ requests < MaxRequests
    /\ requests' = requests + 1
    /\ conns' = [conns EXCEPT ![w].inbox = Append(@, packb(v))]
    /\ UNCHANGED << setup_vars, dispatch_vars, fallback_vars, workers, removed,
                    stale, ls, pc >>

\* the client of socket w closes its end
client_close(w) ==
    /\ pc = "running"
    /\ w \in 1..Len(conns)
    /\ conns[w].client = "connected"
    /\ conns' = [conns EXCEPT ![w].client = "closed"]
    /\ UNCHANGED << setup_vars, dispatch_vars, fallback_vars, workers, removed,
                    stale, requests, ls, pc >>

\* __listen_for_external_processing: sock.accept() returns
worker_accept(w) ==
    /\ w \in 1..Len(workers)
    /\ workers[w].state = "accept"
    /\ conns[w].client # "none"
    /\ workers' = [workers EXCEPT ![w].state = "recv"]
    /\ UNCHANGED << setup_vars, dispatch_vars, fallback_vars, conns, removed,
                    stale, requests, ls, pc >>

\* a thread of the pool whose task has ended takes the oldest task of the
\* queue and runs it
worker_start(w) ==
    /\ w \in 1..Len(workers)
    /\ workers[w].state = "queued"
    /\ \A v \in 1..(w - 1) : workers[v].state # "queued"
    /\ Cardinality({v \in 1..Len(workers) :
                        workers[v].state \in {"accept", "recv"}}) < max_workers
    /\ workers' = [workers EXCEPT ![w].state = "accept"]
    /\ UNCHANGED << setup_vars, dispatch_vars, fallback_vars, conns, removed,
                    stale, requests, ls, pc >>

\* __listen_for_external_processing: one turn of the loop, from the return
\* of conn.recv to conn.sendall.  An empty read (the peer has closed) goes
\* back to recv; an exception of sendall (TypeError for an object without
\* the buffer interface, BrokenPipeError after the peer has closed) ends the
\* task.
worker_recv(w) ==
    /\ w \in 1..Len(workers)
    /\ workers[w].state = "recv"
    /\ conns[w].inbox # << >> \/ conns[w].client = "closed"
    /\ IF conns[w].inbox = << >>
       THEN UNCHANGED << workers, conns >>
       ELSE LET func == thread_pool.tasks[w].func
                received == Head(conns[w].inbox)
                data == unpackb(received)
                result == packb(apply(func, data))
            IN  /\ conns' = [conns EXCEPT ![w].inbox = Tail(@)]
                /\ IF is_bytes_like(data) /\ conns[w].client = "connected"
                   THEN workers' = [workers EXCEPT
                                       ![w].received = Append(@, received),
                                       ![w].sent = Append(@, buffer(data))]
                   ELSE workers' = [workers EXCEPT
                                       ![w].received = Append(@, received),
                                       ![w].state = "dead"]
    /\ UNCHANGED << setup_vars, dispatch_vars, fallback_vars, removed, stale,
                    requests, ls, pc >>

\* self.ls.run returns: the launch service was shut down and the processes
\* of the components have ended, closing their connections
ls_return ==
    /\ pc = "running"
    /\ pc' = "returned"
    /\ ls' = "returned"
    /\ conns' = [w \in 1..Len(conns) |->
                    IF conns[w].client = "connected"
                    THEN [conns[w] EXCEPT !.client = "closed"] ELSE conns[w]]
    /\ UNCHANGED << setup_vars, dispatch_vars, fallback_vars, workers, removed,
                    stale, requests >>

\* the end of bringup: `if self.thread_pool: self.thread_pool.shutdown()`,
\* which waits for the tasks of the pool
pool_shutdown ==
    /\ pc = "returned"
    /\ pc' = IF thread_pool.created THEN "joining" ELSE "ended"
    /\ UNCHANGED << setup_vars, dispatch_vars, fallback_vars, bridge_vars, ls >>

\* every task of the pool has ended: shutdown returns and bringup logs
\* "ALL COMPONENTS ENDED"
pool_joined ==
    /\ pc = "joining"
    /\ \A w \in 1..Len(workers) : workers[w].state = "dead"
    /\ pc' = "ended"
    /\ UNCHANGED << setup_vars, dispatch_vars, fallback_vars, bridge_vars, ls >>

(***************************************************************************)
(* Dispatch of a triggered event: the Monitor runs the monitor actions of  *)
(* the event and emits the internal event if it is one of events_to_emit,  *)
(* the launch service runs the entities of the handlers registered for the *)
(* name, and each launched component runs its own events_actions.          *)
(***************************************************************************)
Executor == {"monitor", "launcher"} \cup Component

\* the entities of the handlers of the description for an internal event name
RECURSIVE HandlerEntities(_, _)
HandlerEntities(d, name) ==
    IF d = << >> THEN << >>
    ELSE (IF Head(d).type = "RegisterEventHandler"
             /\ Head(d).internal_event_name = name
          THEN Head(d).entities ELSE << >>)
         \o HandlerEntities(Tail(d), name)

ActionEntities(action_list) ==
    [i \in 1..Len(action_list) |->
        Entity("Action", action_list[i], "None", << >>)]

\* what each executor has to run when event e triggers
Dispatch(e) ==
    [x \in Executor |->
        IF x = "monitor"
        THEN ActionEntities(DictGet(monitor_node.events_actions, e))
        ELSE IF x = "launcher"
        THEN IF e \in Range(monitor_node.events_to_emit)
             THEN HandlerEntities(description, event_name(e)) ELSE << >>
        ELSE IF x \in Range(Components)
             THEN ActionEntities(DictGet(comp_events_actions[x], e)) ELSE << >>]

Idle == [x \in Executor |-> << >>]

\* the condition of event e is met
trigger(e) ==
    /\ pc = "running"
    /\ triggers < MaxTriggers
    /\ pending = Idle
    /\ e \in {registered[i].event : i \in 1..Len(registered)}
    /\ triggers' = triggers + 1
    /\ triggered' = << e >>
    /\ pending' = Dispatch(e)
    /\ executed' = << >>
    /\ UNCHANGED << bridge_vars, fallback_vars, enable_monitoring, msgpack_installed, lists, components,
                    pkg_executable, components_to_activate_on_start, ros_actions,
                    components_actions, monitor_actions, internal_events,
                    monitor_node, description, launch_group, comp_events_actions,
                    thread_pool, sockets, files, ls, pc, idx, last, registered,
                    calls, history >>

\* executor x runs the next of its entities
execute(x) ==
    /\ pc = "running"
    /\ pending[x] # << >>
    /\ executed' = Append(executed, Head(pending[x]))
    /\ pending' = [pending EXCEPT ![x] = Tail(@)]
    /\ UNCHANGED << bridge_vars, fallback_vars, enable_monitoring, msgpack_installed, lists, components,
                    pkg_executable, components_to_activate_on_start, ros_actions,
                    components_actions, monitor_actions, internal_events,
                    monitor_node, description, launch_group, comp_events_actions,
                    thread_pool, sockets, files, ls, pc, idx, last, registered,
                    calls, triggers, triggered, history >>

(***************************************************************************)
(* Fallbacks: Launcher.on_fail sets one fallback action on every component *)
(* of the launcher.  max_retries is the empty sequence for None and << n >> *)
(* for the number n.                                                       *)
(***************************************************************************)
\* component.fallbacks: the names of the fallback methods of a component
fallbacks(c) ==
    IF c = "c2" THEN << "restart", "reconfigure", "notify" >>
    ELSE << "restart", "reconfigure", "broadcast_status", "notify" >>

\* one parameter of a signature: its kind and whether it has a default
Parameter(kind, has_default) == [kind |-> kind, has_default |-> has_default]

\* inspect.signature(getattr(component, action_name)).parameters.values() of
\*   def restart(self), def reconfigure(self, new_config),
\*   def broadcast_status(self, status=None), def notify(self, **kwargs)
method_params(c, name) ==
    CASE name = "restart" -> << >>
      [] name = "reconfigure" ->
             << Parameter("POSITIONAL_OR_KEYWORD", FALSE) >>
      [] name = "broadcast_status" ->
             << Parameter("POSITIONAL_OR_KEYWORD", TRUE) >>
      [] OTHER -> << Parameter("VAR_KEYWORD", FALSE) >>

any_required(params) ==
    \E i \in 1..Len(params) :
        /\ ~ params[i].has_default
        /\ params[i].kind \notin {"VAR_POSITIONAL", "VAR_KEYWORD"}

\* any(x.default is inspect.Parameter.empty for x in method_params.values())
any_default_empty(params) == \E i \in 1..Len(params) : ~ params[i].has_default

on_fail_arguments_unlimited(method, max_retries) ==
    [action |-> method, max_retries |-> << >>]

\* the arguments of component.on_fail(Action(method=method), max_retries)
on_fail_arguments(method, max_retries) ==
    [action |-> method, max_retries |-> max_retries]

NoFallback ==
    [set |-> FALSE, action |-> "None", max_retries |-> << >>, remaining |-> << >>]

\* BaseComponent.on_fail(action, max_retries): the policy of the component
component_on_fail(args) ==
    [set |-> TRUE, action |-> args.action, max_retries |-> args.max_retries,
     remaining |-> args.max_retries]

\* the loop of Launcher.on_fail over the components comps, from the policies
\* r.policy: the policies when it ends or raises (r.error) and the components
\* whose fallback it has set (r.installed)
RECURSIVE on_fail_loop(_, _, _, _)
on_fail_loop(comps, name, max_retries, r) ==
    IF comps = << >> THEN r
    ELSE LET component == Head(comps)
         IN  IF name \in Range(fallbacks(component))
             THEN IF any_default_empty(method_params(component, name))
                  THEN [r EXCEPT !.error =
                           [raised |-> "ValueError", component |-> component,
                            event |-> "arguments"]]
                  ELSE on_fail_loop(Tail(comps), name, max_retries,
                           [r EXCEPT !.policy[component] =
                               component_on_fail(
                                   on_fail_arguments(name, max_retries)),
                                     !.installed = @ \cup {component}])
             ELSE [r EXCEPT !.error =
                      [raised |-> "ValueError", component |-> component,
                       event |-> "fallback"]]

\* Launcher.on_fail(action_name, max_retries)
on_fail(name, max_retries) ==
    /\ pc = "setup"
    /\ LET r == on_fail_loop(Components, name, max_retries,
                    [policy |-> fallback_policy, installed |-> {},
                     error |-> NoError])
       IN  /\ fallback_policy' = r.policy
           /\ requested' =
                  [c \in Component |->
                      IF c \in r.installed
                      THEN [set |-> TRUE, action_name |-> name,
                            max_retries |-> max_retries]
                      ELSE requested[c]]
           /\ last' = [op |-> "on_fail",
                       args |-> [action_name |-> name, max_retries |-> max_retries],
                       error |-> r.error]
    /\ UNCHANGED << bridge_vars, reported, handled, invoked, enable_monitoring,
                    msgpack_installed, lists, components,
                    pkg_executable, components_to_activate_on_start, ros_actions,
                    components_actions, monitor_actions, internal_events,
                    monitor_node, description, launch_group, comp_events_actions,
                    thread_pool, sockets, files, ls, pc, idx, registered, calls,
                    triggers, triggered, pending, executed, history >>

(***************************************************************************)
(* The fallback of a component at run time.  Failures of a component are   *)
(* reported concurrently; the decisions on them are taken one at a time    *)
(* per component, each a check of the remaining retries and, if any is     *)
(* left, its decrement; the fallback actions decided run on their own.     *)
(***************************************************************************)
Unrecovered == [decision |-> "unrecovered", action |-> "None"]

Execute(action) == [decision |-> "execute", action |-> action]

consume_without_decrement(policy) ==
    IF ~ policy.set \/ policy.remaining = << 0 >>
    THEN [policy |-> policy, decision |-> Unrecovered]
    ELSE [policy |-> policy, decision |-> Execute(policy.action)]

\* the check and decrement of the remaining retries on one failure
consume(policy) ==
    IF ~ policy.set \/ policy.remaining = << 0 >>
    THEN [policy |-> policy, decision |-> Unrecovered]
    ELSE [policy |-> IF policy.remaining = << >> THEN policy
                     ELSE [policy EXCEPT !.remaining = << @[1] - 1 >>],
          decision |-> Execute(policy.action)]

\* the failures of c on which the decision was to run the fallback action
Executions(c) ==
    Cardinality({k \in 1..Len(handled[c]) : handled[c][k].decision = "execute"})

\* component c reports a failure
report_failure(c) ==
    /\ pc = "running"
    /\ c \in Range(Components)
    /\ reported[c] < MaxFailures
    /\ reported' = [reported EXCEPT ![c] = @ + 1]
    /\ UNCHANGED << bridge_vars, fallback_policy, handled, invoked, requested,
                    enable_monitoring,
                    msgpack_installed, lists, components,
                    pkg_executable, components_to_activate_on_start, ros_actions,
                    components_actions, monitor_actions, internal_events,
                    monitor_node, description, launch_group, comp_events_actions,
                    thread_pool, sockets, files, ls, pc, idx, last, registered,
                    calls, triggers, triggered, pending, executed, history >>

\* the decision on the oldest failure of c that has none yet
handle_failure(c) ==
    /\ pc = "running"
    /\ Len(handled[c]) < reported[c]
    /\ LET r == consume(fallback_policy[c])
       IN  /\ fallback_policy' = [fallback_policy EXCEPT ![c] = r.policy]
           /\ handled' = [handled EXCEPT ![c] = Append(@, r.decision)]
    /\ UNCHANGED << bridge_vars, reported, invoked, requested, enable_monitoring,
                    msgpack_installed, lists, components,
                    pkg_executable, components_to_activate_on_start, ros_actions,
                    components_actions, monitor_actions, internal_events,
                    monitor_node, description, launch_group, comp_events_actions,
                    thread_pool, sockets, files, ls, pc, idx, last, registered,
                    calls, triggers, triggered, pending, executed, history >>

\* a fallback action of c that was decided runs to its end
run_fallback(c) ==
    /\ pc = "running"
    /\ invoked[c] < Executions(c)
    /\ invoked' = [invoked EXCEPT ![c] = @ + 1]
    /\ UNCHANGED << bridge_vars, fallback_policy, reported, handled, requested,
                    enable_monitoring,
                    msgpack_installed, lists, components,
                    pkg_executable, components_to_activate_on_start, ros_actions,
                    components_actions, monitor_actions, internal_events,
                    monitor_node, description, launch_group, comp_events_actions,
                    thread_pool, sockets, files, ls, pc, idx, last, registered,
                    calls, triggers, triggered, pending, executed, history >>

(***************************************************************************)
(* A direct call of _get_action_launch_entity.                             *)
(***************************************************************************)
get_action_launch_entity_call(action) ==
    /\ pc = "setup"
    /\ LET got == get_action_launch_entity(action, Components)
       IN  last' = [op |-> "get_action_launch_entity", args |-> action,
                    error |-> got.error, invoked |-> got.invoked,
                    entities |-> got.entities]
    /\ UNCHANGED << bridge_vars, fallback_vars, enable_monitoring, msgpack_installed, lists, components,
                    pkg_executable, components_to_activate_on_start, ros_actions,
                    components_actions, monitor_actions, internal_events,
                    monitor_node, description, launch_group, comp_events_actions,
                    thread_pool, sockets, files, ls, pc, idx, registered, calls,
                    triggers, triggered, pending, executed, history >>

\* a direct call of one of the handlers Launcher.start, Launcher.stop,
\* Launcher.restart with node_name = name: the launch actions it returns
handler_call(handler, name) ==
    /\ pc = "setup"
    /\ last' = [op |-> "handler",
                args |-> [handler |-> handler, node_name |-> name],
                error |-> NoError,
                entities |-> CASE handler = "start" -> start(name)
                               [] handler = "stop" -> stop(name)
                               [] OTHER -> restart(name)]
    /\ UNCHANGED << bridge_vars, fallback_vars, enable_monitoring, msgpack_installed, lists, components,
                    pkg_executable, components_to_activate_on_start, ros_actions,
                    components_actions, monitor_actions, internal_events,
                    monitor_node, description, launch_group, comp_events_actions,
                    thread_pool, sockets, files, ls, pc, idx, registered, calls,
                    triggers, triggered, pending, executed, history >>

(***************************************************************************)
(* The launcher after Launcher.__init__.                                   *)
(***************************************************************************)
Init ==
    /\ enable_monitoring \in BOOLEAN
    /\ msgpack_installed \in BOOLEAN
    /\ lists = << >>
    /\ components = 0
    /\ pkg_executable = << >>
    /\ components_to_activate_on_start = << >>
    /\ ros_actions = << >>
    /\ components_actions = << >>
    /\ monitor_actions = << >>
    /\ internal_events = << >>
    /\ monitor_node = NoMonitor
    /\ description = << [type |-> "PushRosNamespace",
                         internal_event_name |-> "None", entities |-> << >>] >>
    /\ launch_group = << >>
    /\ comp_events_actions = [c \in Component |-> << >>]
    /\ thread_pool = [created |-> FALSE, tasks |-> << >>]
    /\ sockets = << >>
    /\ files = {}
    /\ ls = "None"
    /\ pc = "setup"
    /\ idx = 1
    /\ last = [op |-> "init", args |-> << >>, error |-> NoError]
    /\ registered = << >>
    /\ calls = 0
    /\ triggers = 0
    /\ triggered = << >>
    /\ pending = Idle
    /\ executed = << >>
    /\ fallback_policy = [c \in Component |-> NoFallback]
    /\ reported = [c \in Component |-> 0]
    /\ handled = [c \in Component |-> << >>]
    /\ invoked = [c \in Component |-> 0]
    /\ requested = [c \in Component |->
                       [set |-> FALSE, action_name |-> "None", max_retries |-> << >>]]
    /\ workers = << >>
    /\ conns = << >>
    /\ removed = {}
    /\ stale = {}
    /\ requests = 0
    /\ history = << >>

(***************************************************************************)
(* Arguments of the add_pkg calls the specifications draw from.            *)
(***************************************************************************)
\* a list of actions, and a single action, as a value of events_actions
List(items) == [is_list |-> TRUE, items |-> items]

Single(a) == [is_list |-> FALSE, item |-> a]

On(e, raw_action) == << [key |-> e, val |-> raw_action] >>

\* add_pkg(components, events_actions=ea): the defaults, components in threads
Pkg(comps, ea) ==
    [components |-> comps, package_name |-> "None",
     executable_entry_point |-> "executable", events_actions |-> ea,
     multiprocessing |-> FALSE, activate_all_components_on_start |-> TRUE,
     components_to_activate_on_start |-> << >>]

\* add_pkg(components, package_name="pkg", multiprocessing=True, ...)
ProcPkg(comps, ea) ==
    [Pkg(comps, ea) EXCEPT !.package_name = "pkg", !.multiprocessing = TRUE]

\* the calls of the bringup scenarios
LaunchCalls ==
    {Pkg(<< "c1" >>, << >>), Pkg(<< "c2" >>, << >>), Pkg(<< "c3" >>, << >>),
     ProcPkg(<< "c1" >>, << >>), ProcPkg(<< "c1", "c2" >>, << >>),
     ProcPkg(<< "c3" >>, << >>),
     Pkg(<< "c1", "c2" >>, On("e1", Single("a1"))),
     ProcPkg(<< "c1", "c2" >>, On("e1", List(<< "a1" >>))),
     Pkg(<< "c1" >>, On("e1", List(<< "r1" >>))),
     Pkg(<< "c2" >>, On("e3", List(<< "r2" >>))),
     Pkg(<< "c2" >>, On("e3", List(<< "m1" >>))),
     Pkg(<< "c2" >>, On("e3", List(<< "a2" >>))),
     Pkg(<< "c1" >>, On("e1", List(<< "m1", "r1" >>))),
     Pkg(<< "c1" >>, On("e1", List(<< "r1", "m1" >>))),
     Pkg(<< "c1" >>, On("e1", List(<< "a1", "r1" >>))),
     Pkg(<< "c1" >>, On("e2", List(<< "p1" >>)))}

\* the events_actions of the registration scenarios
RegisterEventsActions ==
    {<< >>,
     On("e1", List(<< "r1" >>)), On("e1", Single("r2")),
     On("e3", List(<< "r2" >>)), On("e3", List(<< "m1" >>)),
     On("e1", List(<< "m1", "r1" >>)), On("e1", List(<< "r1", "r2" >>)),
     On("e1", Single("a1")), On("e1", List(<< "a1", "r1" >>)),
     On("e2", List(<< "a1", "a3" >>)), On("e2", List(<< "r1", "a3", "m1" >>)),
     On("e2", List(<< "p1" >>)),
     On("e1", List(<< "r1", "a1", "m1", "p1" >>)),
     On("e1", List(<< "m1" >>)) \o On("e2", List(<< "a2", "r1" >>))}

\* the calls of the registration scenarios
RegisterCalls ==
    {Pkg(comps, ea) : comps \in {<< "c1" >>, << "c2" >>, << "c1", "c2" >>},
                      ea \in RegisterEventsActions}
    \cup {ProcPkg(<< "c1" >>, On("e1", Single("a1"))),
          [ProcPkg(<< "c2" >>, On("e1", Single("a1")))
              EXCEPT !.package_name = "None"],
          [ProcPkg(<< "c2" >>, On("e2", Single("a2")))
              EXCEPT !.executable_entry_point = "None"],
          [Pkg(<< "c2" >>, On("e1", List(<< "a2" >>)))
              EXCEPT !.activate_all_components_on_start = FALSE],
          [Pkg(<< "c2" >>, << >>)
              EXCEPT !.components_to_activate_on_start = << "c1" >>]}

\* the actions _get_action_launch_entity is called with
DispatchActions ==
    [action_name : {"start", "stop", "restart", "bringup", "components", "reset"},
     parent_component : {"A", "B", "C"}]

DispatchCalls ==
    {Pkg(<< "c1" >>, << >>), Pkg(<< "c2" >>, << >>), Pkg(<< "c3" >>, << >>),
     ProcPkg(<< "c2", "c1" >>, << >>)}

(***************************************************************************)
(* Specifications.                                                         *)
(***************************************************************************)
\* registration, bringup and the dispatch of triggered events
Next ==
    \/ \E a \in LaunchCalls : add_pkg(a, Len(lists) + 1)
    \/ bringup
    \/ setup_component
    \/ start_ros_launch
    \/ \E e \in Event : trigger(e)
    \/ \E x \in Executor : execute(x)

Spec == Init /\ [][Next]_vars

\* registration alone, over more calls
NextRegister == \E a \in RegisterCalls : add_pkg(a, Len(lists) + 1)

SpecRegister == Init /\ [][NextRegister]_vars

\* registration and direct calls of _get_action_launch_entity
NextDispatch ==
    \/ \E a \in DispatchCalls : add_pkg(a, Len(lists) + 1)
    \/ \E action \in DispatchActions : get_action_launch_entity_call(action)

SpecDispatch == Init /\ [][NextDispatch]_vars

\* the node names the handlers are called with
HandlerNames == {"A", "B", "C"}

\* registration and direct calls of the lifecycle action handlers
NextHandlers ==
    \/ \E a \in DispatchCalls : add_pkg(a, Len(lists) + 1)
    \/ \E handler \in {"start", "stop", "restart"}, name \in HandlerNames :
           handler_call(handler, name)

SpecHandlers == Init /\ [][NextHandlers]_vars

\* the values of max_retries: None, 0, 1, 2
Retries == {<< >>, << 0 >>, << 1 >>, << 2 >>}

\* the calls of the fallback scenarios
FallbackCalls == {Pkg(<< "c1" >>, << >>), Pkg(<< "c2" >>, << >>)}

\* registration, on_fail, bringup and the failures of the running components
NextFallback ==
    \/ \E a \in FallbackCalls : add_pkg(a, Len(lists) + 1)
    \/ \E name \in {"restart", "broadcast_status"}, max_retries \in Retries :
           on_fail(name, max_retries)
    \/ bringup
    \/ setup_component
    \/ start_ros_launch
    \/ \E c \in Component : report_failure(c)
    \/ \E c \in Component : handle_failure(c)
    \/ \E c \in Component : run_fallback(c)

\* a launcher with monitoring, on a host where msgpack is installed
InitFallback == Init /\ enable_monitoring /\ msgpack_installed

SpecFallback == InitFallback /\ [][NextFallback]_vars

\* the socket files an earlier run may have left
StaleFiles == {<< "A", "k1", "f1" >>, << "B", "k1", "f1" >>}

\* the calls of the bridge scenarios
BridgeCalls ==
    {ProcPkg(<< "c1" >>, << >>), Pkg(<< "c1" >>, << >>),
     ProcPkg(<< "c2", "c3" >>, << >>), Pkg(<< "c2" >>, << >>),
     ProcPkg(<< "c3" >>, << >>)}

\* a launcher with monitoring; msgpack is installed or not
InitBridge == Init /\ enable_monitoring

\* registration and bringup up to the start of the launch service, with
\* socket files left in /tmp
NextBridge ==
    \/ \E a \in BridgeCalls : add_pkg(a, Len(lists) + 1)
    \/ \E f \in StaleFiles : leave_stale_file(f)
    \/ bringup
    \/ setup_component
    \/ start_ros_launch

SpecBridge == InitBridge /\ [][NextBridge]_vars

\* the calls of the scenarios of the bridge at run time
WorkerCalls ==
    {ProcPkg(<< "c1" >>, << >>), ProcPkg(<< "c2" >>, << >>),
     ProcPkg(<< "c3" >>, << >>)}

\* the tasks a thread pool can be given: one per function declared
WorkerIds ==
    1..(Len(Processors(external_processors("c1")))
        + Len(Processors(external_processors("c3"))))

\* registration, bringup, the clients and workers of the bridge, and the end
\* of bringup
NextWorkers ==
    \/ \E a \in WorkerCalls : add_pkg(a, Len(lists) + 1)
    \/ bringup
    \/ setup_component
    \/ start_ros_launch
    \/ \E w \in WorkerIds : client_connect(w)
    \/ \E w \in WorkerIds, v \in Payload : client_send(w, v)
    \/ \E w \in WorkerIds : client_close(w)
    \/ \E w \in WorkerIds : worker_accept(w)
    \/ \E w \in WorkerIds : worker_recv(w)
    \/ ls_return
    \/ pool_shutdown
    \/ pool_joined

\* the threads of the pool and the thread of bringup each run when they can;
\* the clients and the end of the launch service are not the launcher's
SpecWorkers ==
    /\ InitFallback
    /\ [][NextWorkers]_vars
    /\ WF_vars(bringup) /\ WF_vars(setup_component) /\ WF_vars(start_ros_launch)
    /\ WF_vars(pool_shutdown) /\ WF_vars(pool_joined)
    /\ \A w \in WorkerIds : WF_vars(worker_accept(w)) /\ WF_vars(worker_recv(w))

\* the calls of the scenarios of the thread pool
PoolCalls == {ProcPkg(<< "c4" >>, << >>), ProcPkg(<< "c2" >>, << >>)}

\* the tasks the thread pool is given for c4
PoolIds == 1..Len(Processors(external_processors("c4")))

\* registration, bringup, the clients that connect and send a dict, and the
\* threads of the pool
NextPool ==
    \/ \E a \in PoolCalls : add_pkg(a, Len(lists) + 1)
    \/ bringup
    \/ setup_component
    \/ start_ros_launch
    \/ \E w \in PoolIds : client_connect(w)
    \/ \E w \in PoolIds : client_send(w, DictValue)
    \/ \E w \in PoolIds : worker_start(w)
    \/ \E w \in PoolIds : worker_accept(w)
    \/ \E w \in PoolIds : worker_recv(w)

\* the threads of the pool and the thread of bringup each run when they can
SpecPool ==
    /\ InitFallback
    /\ [][NextPool]_vars
    /\ WF_vars(bringup) /\ WF_vars(setup_component) /\ WF_vars(start_ros_launch)
    /\ \A w \in PoolIds :
           WF_vars(worker_start(w)) /\ WF_vars(worker_accept(w))
           /\ WF_vars(worker_recv(w))

\* the calls of the scenarios of lists passed again or changed by the caller
AliasCalls ==
    {Pkg(<< >>, << >>), Pkg(<< "c1" >>, << >>), ProcPkg(<< "c1" >>, << >>),
     Pkg(<< "c2" >>, << >>), ProcPkg(<< "c2" >>, << >>),
     ProcPkg(<< "c4", "c2" >>, << >>)}

\* the components a caller adds to its lists
AppendComponents == {"c2", "c4"}

\* registration with new lists and with lists passed before, callers that
\* append to their lists, and bringup up to the start of the launch service
NextAlias ==
    \/ \E a \in AliasCalls, l \in 1..(Len(lists) + 1) : add_pkg(a, l)
    \/ \E l \in 1..Len(lists), c \in AppendComponents : caller_append(l, c)
    \/ bringup
    \/ setup_component
    \/ start_ros_launch

SpecAlias == InitFallback /\ [][NextAlias]_vars

\* the calls of the activation scenarios
ActivateCalls ==
    {Pkg(<< "c1" >>, << >>),
     [ProcPkg(<< "c1" >>, << >>) EXCEPT !.activate_all_components_on_start = FALSE],
     ProcPkg(<< "c2" >>, << >>),
     [Pkg(<< "c2" >>, << >>) EXCEPT !.activate_all_components_on_start = FALSE],
     [Pkg(<< "c2" >>, << >>) EXCEPT !.components_to_activate_on_start = << "c1" >>],
     [ProcPkg(<< "c1", "c2" >>, << >>)
         EXCEPT !.components_to_activate_on_start = << "c2" >>],
     [ProcPkg(<< "c2" >>, On("e1", Single("a1")))
         EXCEPT !.package_name = "None"],
     Pkg(<< "c2" >>, On("e1", Single("a1")))}

\* registration and the part of bringup that builds the activation handler
NextActivate ==
    \/ \E a \in ActivateCalls : add_pkg(a, Len(lists) + 1)
    \/ bringup

SpecActivate == Init /\ [][NextActivate]_vars

\* the calls of the scenarios of a run
RunCalls ==
    {Pkg(<< "c1" >>, << >>), Pkg(<< "c2" >>, On("e1", List(<< "r1", "m1" >>))),
     ProcPkg(<< "c2" >>, On("e2", Single("a2")))}

\* registration, bringup to its end, and add_pkg calls made meanwhile
NextRun ==
    \/ \E a \in RunCalls : add_pkg(a, Len(lists) + 1)
    \/ bringup
    \/ setup_component
    \/ start_ros_launch
    \/ \E a \in RunCalls : add_pkg_in_run(a, Len(lists) + 1)
    \/ ls_return
    \/ pool_shutdown

SpecRun == InitFallback /\ [][NextRun]_vars

\* registration and on_fail over all the fallback names
NextOnFail ==
    \/ \E a \in DispatchCalls : add_pkg(a, Len(lists) + 1)
    \/ \E name \in {"restart", "reconfigure", "broadcast_status", "notify",
                     "shutdown"},
          max_retries \in Retries : on_fail(name, max_retries)

SpecOnFail == Init /\ [][NextOnFail]_vars

(***************************************************************************)
(* Properties.                                                             *)
(***************************************************************************)
\* two entries of self.components have one node name
SharedName ==
    \E i, j \in 1..Len(Components) :
        i # j /\ node_name(Components[i]) = node_name(Components[j])

\* C1: once bringup has been called on a launcher in which two registered
\* components share a node name, bringup has failed with a ValueError and
\* nothing was launched: the launch group is empty, no group action is in the
\* description, no socket is bound, no thread pool or task exists and the
\* launch service was not started.
C1_DuplicateNamesFailBeforeLaunch ==
    (pc # "setup" /\ SharedName) =>
        /\ pc = "failed"
        /\ last.op = "bringup"
        /\ last.error.raised = "ValueError"
        /\ launch_group = << >>
        /\ \A i \in 1..Len(description) : description[i].type # "GroupAction"
        /\ sockets = << >>
        /\ files = {}
        /\ thread_pool = [created |-> FALSE, tasks |-> << >>]
        /\ ls = "None"

\* bringup failed on the duplicate name of a component that would run in a
\* process of its own and declares an external processor
C1_Witness ==
    /\ pc = "failed"
    /\ SharedName
    /\ last.error = ValueError("components")
    /\ \E i \in 1..Len(Components) :
           /\ external_processors(Components[i]) # << >>
           /\ pkg_executable[i][1] = "pkg"

\* the actions add_pkg accepted for event e, in registration order
RegisteredFor(e) ==
    LET OfEvent(r) == r.event = e
        picked == SelectSeq(registered, OfEvent)
    IN  [i \in 1..Len(picked) |-> picked[i].action]

\* C2: once bringup has been called on a launcher in which two distinct
\* events with one name were registered, bringup has failed with a ValueError
\* and the Monitor was not built.
C2_DuplicateEventNamesFail ==
    (/\ pc # "setup"
     /\ \E i, j \in 1..Len(registered) :
            /\ registered[i].event # registered[j].event
            /\ event_name(registered[i].event) = event_name(registered[j].event))
    => /\ pc = "failed"
       /\ last.error.raised = "ValueError"
       /\ ~ monitor_node.built

\* the last call was add_pkg and its arguments passed the check of
\* package_name and executable_entry_point
LastAddPkgAccepted ==
    /\ last.op = "add_pkg"
    /\ ~ (/\ last.args.multiprocessing
          /\ (\/ last.args.package_name = "None"
              \/ last.args.executable_entry_point = "None"))

\* the (event, action) pairs of the events_actions of the last add_pkg call
LastPairs == Flatten(last.args.events_actions)

\* the places in LastPairs of the component actions whose target is outside s
TargetsOutside(s) ==
    {i \in 1..Len(LastPairs) :
        /\ component_action(LastPairs[i].action)
        /\ executable_self(LastPairs[i].action) \notin s}

Min(S) == CHOOSE i \in S : \A j \in S : i <= j

\* the actions stored in a table
Stored(table) ==
    UNION {Range(table[i].val) : i \in 1..Len(table)}

\* C3 as claimed: an add_pkg call whose events_actions holds a component
\* action whose target is not registered with the launcher raises
\* InvalidAction.
C3_UnregisteredTargetRaises ==
    (LastAddPkgAccepted /\ TargetsOutside(Range(Components)) # {})
    => last.error.raised = "InvalidAction"

\* C3 as amended: with monitoring enabled such a call raises InvalidAction,
\* naming the event and the target of the first component action of the call
\* whose target is not among the components passed in the call; with
\* monitoring disabled add_pkg raises no InvalidAction and stores no action;
\* in both cases no stored component action has an unregistered target.
C3_UnregisteredTargetRaisesWhenMonitoring ==
    /\ (/\ LastAddPkgAccepted
        /\ enable_monitoring
        /\ TargetsOutside(Range(Components)) # {})
       => LET first == LastPairs[Min(TargetsOutside(Range(last.args.components)))]
          IN  last.error = InvalidAction(executable_self(first.action), first.event)
    /\ ~ enable_monitoring
       => /\ last.error.raised # "InvalidAction"
          /\ ros_actions = << >>
          /\ components_actions = << >>
          /\ monitor_actions = << >>
    /\ \A a \in Stored(components_actions) : executable_self(a) \in Range(Components)

\* with monitoring enabled, add_pkg raised InvalidAction for a target that is
\* not registered
C3_Witness ==
    /\ LastAddPkgAccepted
    /\ enable_monitoring
    /\ TargetsOutside(Range(Components)) # {}
    /\ last.error.raised = "InvalidAction"
    /\ last.error.component \notin Range(Components)

\* C4: an add_pkg call all of whose component actions target components of
\* the registry does not raise InvalidAction.
C4_RegisteredTargetAccepted ==
    (LastAddPkgAccepted /\ TargetsOutside(Range(Components)) = {})
    => last.error.raised # "InvalidAction"

\* C5: every action add_pkg accepted for an event is stored in exactly one
\* table: the passthrough table if it is a launch action, the component table
\* if it is a component action, the monitor table in every other case.
C5_EveryActionStoredOnce ==
    \A e \in Event :
        /\ Len(DictGet(ros_actions, e)) + Len(DictGet(components_actions, e))
              + Len(DictGet(monitor_actions, e)) = Len(RegisteredFor(e))
        /\ \A a \in Range(RegisteredFor(e)) :
               IF is_ros_launch_action(a) THEN a \in Range(DictGet(ros_actions, e))
               ELSE IF component_action(a)
               THEN a \in Range(DictGet(components_actions, e))
               ELSE a \in Range(DictGet(monitor_actions, e))

\* C6: for each table and each event, the list stored for the event is the
\* sequence of the actions of the table's kind that add_pkg accepted for the
\* event, in registration order.
C6_TablesKeepRegistrationOrder ==
    \A e \in Event :
        LET IsRos(a) == is_ros_launch_action(a)
            IsComp(a) == ~ is_ros_launch_action(a) /\ component_action(a)
            IsMon(a) == /\ ~ is_ros_launch_action(a)
                        /\ ~ component_action(a)
                        /\ monitor_action(a)
        IN  /\ DictGet(ros_actions, e) = SelectSeq(RegisteredFor(e), IsRos)
            /\ DictGet(components_actions, e) = SelectSeq(RegisteredFor(e), IsComp)
            /\ DictGet(monitor_actions, e) = SelectSeq(RegisteredFor(e), IsMon)

\* a second call has appended a launch action to the list of an event that
\* an earlier call had registered
C6_Witness ==
    /\ calls = 2
    /\ last.op = "add_pkg"
    /\ last.args.events_actions = On("e1", Single("r2"))
    /\ DictGet(ros_actions, "e1") = << "r1", "r2" >>

\* the actions run for the trigger, in the order they were run
ExecutedActions ==
    LET IsAction(x) == x.type # "LogInfo"
        run == SelectSeq(executed, IsAction)
    IN  [i \in 1..Len(run) |-> run[i].action]

\* C7: when the dispatch of a triggered event whose actions are launch,
\* component or monitor actions is over, every action registered for the
\* event has been run once and in registration order.
C7_ExecutedInRegistrationOrder ==
    (/\ pc = "running"
     /\ triggered # << >>
     /\ pending = Idle
     /\ \A a \in Range(RegisteredFor(triggered[1])) :
            is_ros_launch_action(a) \/ component_action(a) \/ monitor_action(a))
    => ExecutedActions = RegisteredFor(triggered[1])

\* C8: once the launch service runs, every event that has a component action
\* is one of the events the Monitor emits and the description holds a handler
\* for its internal-event name.
C8_OrchestratorHandlesComponentActions ==
    pc = "running" =>
        \A e \in Range(DictKeys(components_actions)) :
            /\ e \in Range(monitor_node.events_to_emit)
            /\ \E i \in 1..Len(description) :
                   /\ description[i].type = "RegisterEventHandler"
                   /\ description[i].internal_event_name = event_name(e)

\* C9: a call of _get_action_launch_entity for an action whose parent
\* component is the name of no registered component raises InvalidAction and
\* invokes no handler.
C9_UnknownComponentRaises ==
    (/\ last.op = "get_action_launch_entity"
     /\ \A i \in 1..Len(Components) :
            node_name(Components[i]) # last.args.parent_component)
    => /\ last.error.raised = "InvalidAction"
       /\ last.invoked = NotInvoked

\* C10: a call of _get_action_launch_entity invokes an operation only if it
\* is the action's operation and one of start, stop, restart; for any other
\* operation name it raises InvalidAction, invokes nothing and returns no
\* launch entity.
C10_OnlyDeclaredHandlersInvoked ==
    last.op = "get_action_launch_entity" =>
        /\ last.invoked # NotInvoked
           => /\ last.invoked.handler = last.args.action_name
              /\ last.invoked.handler \in {"start", "stop", "restart"}
        /\ last.args.action_name \notin {"start", "stop", "restart"}
           => /\ last.error.raised = "InvalidAction"
              /\ last.invoked = NotInvoked
              /\ last.entities = << >>

\* with a component registered under the action's parent name, a call for an
\* attribute that is no handler was refused
C10_Witness ==
    /\ last.op = "get_action_launch_entity"
    /\ last.args.action_name = "bringup"
    /\ \E i \in 1..Len(Components) :
           node_name(Components[i]) = last.args.parent_component
    /\ last.error.raised = "InvalidAction"

\* C11: a call of start, stop or restart for a node name returns one
\* LifecycleTransition request, addressed to that name alone, with the
\* transitions [configure, activate], [deactivate] and [deactivate, activate]
\* respectively, and the call changes nothing of the launcher.
C11_HandlersRequestTransitions ==
    [][last'.op = "handler" =>
          /\ Len(last'.entities) = 1
          /\ last'.entities[1].type = "LifecycleTransition"
          /\ last'.entities[1].node = last'.args.node_name
          /\ last'.entities[1].transitions =
                 CASE last'.args.handler = "start" -> << "configure", "activate" >>
                   [] last'.args.handler = "stop" -> << "deactivate" >>
                   [] last'.args.handler = "restart" -> << "deactivate", "activate" >>
          /\ UNCHANGED << lists, components, pkg_executable,
                          components_to_activate_on_start, ros_actions,
                          components_actions, monitor_actions, internal_events,
                          monitor_node, description, launch_group,
                          comp_events_actions, thread_pool, sockets, files, ls >>
      ]_vars

\* restart was called for "A" on a launcher that also holds component "B"
C11_Witness ==
    /\ last.op = "handler"
    /\ last.args = [handler |-> "restart", node_name |-> "A"]
    /\ last.entities = restart("A")
    /\ {"A", "B"} \subseteq {node_name(Components[i]) : i \in 1..Len(Components)}

\* C12: for a component whose fallback was set by on_fail(name, N) with a
\* number N, the decision on its k-th failure is to run the action `name` if
\* k <= N and is an unrecovered failure, running nothing, if k > N; the
\* actions that have run are no more than those decided.
C12_FallbackRunsOnFirstN ==
    \A c \in Component :
        (requested[c].set /\ requested[c].max_retries # << >>) =>
            /\ \A k \in 1..Len(handled[c]) :
                   handled[c][k] =
                       IF k <= requested[c].max_retries[1]
                       THEN Execute(requested[c].action_name)
                       ELSE Unrecovered
            /\ invoked[c] <= Executions(c)
            /\ invoked[c] <= requested[c].max_retries[1]

\* three failures of a component with max_retries = 2: the action ran twice
\* and the third failure is unrecovered
C12_Witness ==
    \E c \in Component :
        /\ requested[c].set
        /\ requested[c].max_retries = << 2 >>
        /\ Len(handled[c]) = 3
        /\ handled[c][3] = Unrecovered
        /\ invoked[c] = 2

\* the places in self.components of the components that have a fallback
\* method of the name given to the last on_fail call
WithFallback ==
    {i \in 1..Len(Components) :
        last.args.action_name \in Range(fallbacks(Components[i]))}

\* the places of the components on which the loop of on_fail raises: the name
\* is none of the component's fallbacks, or a parameter of the method has no
\* default (a required parameter, *args or **kwargs)
Refused ==
    {i \in 1..Len(Components) :
        \/ i \notin WithFallback
        \/ \E k \in 1..Len(method_params(Components[i], last.args.action_name)) :
               ~ method_params(Components[i], last.args.action_name)[k].has_default}

\* C13 as claimed: on_fail raises ValueError if and only if the named
\* fallback method of some registered component has a parameter without a
\* default.
C13_RaisesIffRequiredArgument ==
    last.op = "on_fail" =>
        (last.error.raised = "ValueError"
         <=> \E i \in WithFallback :
                \E k \in 1..Len(method_params(Components[i], last.args.action_name)) :
                    ~ method_params(Components[i], last.args.action_name)[k].has_default)

\* C13 as amended: on_fail raises ValueError if and only if, for some
\* registered component, the name is none of its fallbacks or its method has
\* a parameter without a default; it raises on the first such component, and
\* every component before it (every component when there is none) has the
\* method as its fallback with the given max_retries.
C13_RaisesOnFirstRefusedComponent ==
    last.op = "on_fail" =>
        /\ last.error.raised \in {"None", "ValueError"}
        /\ last.error.raised = "ValueError" <=> Refused # {}
        /\ Refused # {} =>
               /\ last.error.component = Components[Min(Refused)]
               /\ last.error.event =
                      IF Min(Refused) \in WithFallback THEN "arguments"
                      ELSE "fallback"
        /\ \A i \in 1..Len(Components) :
               (\A j \in Refused : i < j) =>
                   fallback_policy[Components[i]] =
                       [set |-> TRUE, action |-> last.args.action_name,
                        max_retries |-> last.args.max_retries,
                        remaining |-> last.args.max_retries]

\* on_fail was called with the name of a method with **kwargs alone, which
\* is a fallback of every registered component, and raised on the first
\* component; and a call for a method with a defaulted parameter set the
\* fallback of the component before the one it raised on
C13_Witness ==
    /\ last.op = "on_fail"
    /\ Len(Components) = 3
    /\ last.args.action_name = "broadcast_status"
    /\ last.args.max_retries = << 1 >>
    /\ last.error = [raised |-> "ValueError", component |-> "c2",
                     event |-> "fallback"]
    /\ fallback_policy["c1"].action = "broadcast_status"
    /\ fallback_policy["c1"].remaining = << 1 >>

InProcess(i) ==
    /\ i <= Len(pkg_executable)
    /\ pkg_executable[i][1] # "None"
    /\ pkg_executable[i][2] # "None"

\* the socket bound for a (component, key, function) triple
Endpoint(c, key, processor) ==
    [file |-> << node_name(c), key, processor >>, func |-> processor,
     component |-> c]

\* every component at a place in `places` that declares external processors
\* has one bound socket and one task per (component, key, function) triple,
\* at the address made of the node name, the key and the function name
EndpointPerTriple(places) ==
    \A i \in places :
        LET c == Components[i]
            todo == Processors(external_processors(c))
        IN  \A k \in 1..Len(todo) :
                LET e == Endpoint(c, todo[k].key, todo[k].processor)
                IN  /\ Cardinality({j \in 1..Len(sockets) : sockets[j] = e}) = 1
                    /\ Cardinality({j \in 1..Len(thread_pool.tasks) :
                                       thread_pool.tasks[j] = e}) = 1
                    /\ e.file \in files
                    /\ e.file \in stale => e.file \in removed

\* C16 as claimed: once bringup has started the launch service, every
\* registered component that declares external processors has one endpoint
\* and one task per triple, whatever its topology.
C16_EndpointPerTripleAnyTopology ==
    pc = "running" => EndpointPerTriple(1..Len(Components))

\* C16 as amended: once bringup has started the launch service, every
\* registered component launched in a process of its own that declares
\* external processors has one endpoint and one task per triple, at the
\* address derived from the triple, a stale file at that address having been
\* removed; no other socket or task exists and no other file was removed.
C16_EndpointPerTripleInProcess ==
    pc = "running" =>
        /\ EndpointPerTriple({i \in 1..Len(Components) : InProcess(i)})
        /\ \A j \in 1..Len(sockets) :
               \E i \in 1..Len(Components) :
                   /\ InProcess(i)
                   /\ sockets[j].component = Components[i]
                   /\ \E k \in 1..Len(Processors(external_processors(Components[i]))) :
                          LET t == Processors(external_processors(Components[i]))[k]
                          IN  sockets[j] = Endpoint(Components[i], t.key, t.processor)
        /\ thread_pool.tasks = sockets
        /\ Len(workers) = Len(sockets)
        /\ removed = stale \cap {sockets[j].file : j \in 1..Len(sockets)}

\* c1 runs in a process of its own: its two functions of key k1 each have
\* an endpoint, and the stale file at the address of the first was removed
C16_Witness ==
    /\ pc = "running"
    /\ Components = << "c1" >>
    /\ InProcess(1)
    /\ Len(sockets) = 2
    /\ stale = StaleFiles
    /\ removed = {<< "A", "k1", "f1" >>}

\* a registered component launched in a process of its own declares
\* external processors
ProcessorsInProcess ==
    {i \in 1..Len(Components) :
        InProcess(i) /\ external_processors(Components[i]) # << >>}

\* bringup is over and did not fail on the components or on the names
BringupPassedChecks ==
    /\ pc \in {"failed", "running"}
    /\ last.error.raised # "ValueError"

NothingBound ==
    /\ sockets = << >>
    /\ thread_pool.tasks = << >>
    /\ workers = << >>
    /\ removed = {}
    /\ files = stale

\* C17 as claimed: without msgpack, a bringup of a launcher in which some
\* component declares external processors fails with ModuleNotFoundError,
\* nothing being bound, removed or submitted.
C17_MissingMsgpackFailsBringup ==
    (/\ ~ msgpack_installed
     /\ BringupPassedChecks
     /\ \E i \in 1..Len(Components) : external_processors(Components[i]) # << >>)
    => /\ pc = "failed"
       /\ last.error.raised = "ModuleNotFoundError"
       /\ NothingBound

\* C17 as amended: without msgpack no socket is ever bound, no file removed
\* and no task submitted, and a bringup of a launcher in which some component
\* launched in a process of its own declares external processors fails with
\* ModuleNotFoundError, raised for the first such component, before the
\* launch service is started.
C17_MissingMsgpackFailsBringupInProcess ==
    ~ msgpack_installed =>
        /\ NothingBound
        /\ (BringupPassedChecks /\ ProcessorsInProcess # {}) =>
               /\ pc = "failed"
               /\ last.error =
                      [raised |-> "ModuleNotFoundError",
                       component |-> Components[Min(ProcessorsInProcess)],
                       event |-> "None"]
               /\ ls = "None"

\* without msgpack, bringup failed on c3, launched in a process after c2,
\* with a stale file at hand
C17_Witness ==
    /\ ~ msgpack_installed
    /\ pc = "failed"
    /\ last.error.raised = "ModuleNotFoundError"
    /\ last.error.component = "c3"
    /\ Len(launch_group) = 1
    /\ stale # {}
    /\ thread_pool.created

\* C15: while its client is connected, a worker that is waiting for the
\* next request has sent one response per request received, in the order of
\* the requests, each the msgpack bytes of the function's result on the
\* unpacked request; and no worker has ended on a request.
C15_ResponseIsSerializedResult ==
    \A w \in 1..Len(workers) :
        conns[w].client = "connected" =>
            /\ workers[w].state # "dead"
            /\ workers[w].sent =
                   [i \in 1..Len(workers[w].received) |->
                       packb(apply(thread_pool.tasks[w].func,
                                   unpackb(workers[w].received[i])))]

\* C20: once the run of the launch service has returned, bringup shuts the
\* thread pool down and reaches its end.
C20_BringupReturns == (pc = "returned") ~> (pc = "ended")

\* C18: no step taken from the start of bringup until its end changes the
\* component list, the topology list, the activation set or one of the three
\* tables.
C18_RegistriesFrozenDuringRun ==
    [][((pc = "setup" /\ pc' # "setup")
        \/ pc \in {"add_components", "running", "returned", "joining"})
       => UNCHANGED << lists, components, pkg_executable,
                       components_to_activate_on_start, ros_actions,
                       components_actions, monitor_actions >>
      ]_vars

\* C19: an add_pkg call with multiprocessing=True and no package name or no
\* entry point raises ValueError and leaves the component list, the topology
\* list, the activation set and the three tables as they were.
C19_MissingPackageLeavesStateUnchanged ==
    [][(/\ calls' = calls + 1
        /\ last'.op = "add_pkg"
        /\ last'.args.multiprocessing
        /\ (\/ last'.args.package_name = "None"
            \/ last'.args.executable_entry_point = "None"))
       => /\ last'.error.raised = "ValueError"
          /\ UNCHANGED << lists, components, pkg_executable,
                          components_to_activate_on_start, ros_actions,
                          components_actions, monitor_actions >>
      ]_vars

\* on a launcher that holds a component and an action, a call with
\* multiprocessing and the default entry point but no package name raised
C19_Witness ==
    /\ calls = 2
    /\ last.op = "add_pkg"
    /\ last.args.multiprocessing
    /\ last.args.package_name = "None"
    /\ last.args.executable_entry_point = "executable"
    /\ last.error = ValueError("package")
    /\ Len(Components) = 1
    /\ Len(pkg_executable) = 1
    /\ ros_actions # << >>

\* C21: every listener task is started and accepts the connection a client
\* offers on its socket, whatever the number of endpoints.
C21_EveryListenerAccepts ==
    \A w \in PoolIds :
        (w \in 1..Len(conns) /\ conns[w].client = "connected")
        ~> (w \in 1..Len(workers) /\ workers[w].state \in {"recv", "dead"})

\* the components the add_pkg calls of h registered, in order, each with the
\* topology of its call
RECURSIVE Registrations(_)
Registrations(h) ==
    IF h = << >> THEN << >>
    ELSE (IF Head(h).error = ValueError("package") THEN << >>
          ELSE [i \in 1..Len(Head(h).args.components) |->
                   [component |-> Head(h).args.components[i],
                    multiprocessing |-> Head(h).args.multiprocessing,
                    package_name |-> Head(h).args.package_name,
                    executable_entry_point |->
                        Head(h).args.executable_entry_point]])
         \o Registrations(Tail(h))

RECURSIVE ExpectedActivation(_)
ExpectedActivation(h) ==
    IF h = << >> THEN {}
    ELSE (IF Head(h).error = ValueError("package") THEN {}
          ELSE IF Head(h).args.components_to_activate_on_start # << >>
          THEN Range(Head(h).args.components_to_activate_on_start)
          ELSE IF Head(h).args.activate_all_components_on_start
          THEN Range(Head(h).args.components)
          ELSE {})
         \cup ExpectedActivation(Tail(h))

\* the start requests the handler of "activate_all" makes to node name
StartRequests(name) ==
    LET ents == HandlerEntities(description, "activate_all")
    IN  {k \in 1..Len(ents) : ents[k].node = name}

\* C23: the activation set is the union over the add_pkg calls of what each
\* asked to activate, and on "activate_all" each member gets exactly one
\* start request, configure then activate for a component run in a process,
\* the component's own start for one run in a thread; a component outside
\* the set gets none.
C23_ActivationSetAndStartRequests ==
    /\ Range(DictKeys(components_to_activate_on_start))
           = ExpectedActivation(history)
    /\ monitor_node.built =>
           LET R == Registrations(history)
               ents == HandlerEntities(description, "activate_all")
           IN  \A i \in 1..Len(R) :
                   IF R[i].component \in ExpectedActivation(history)
                   THEN /\ Cardinality(StartRequests(node_name(R[i].component))) = 1
                        /\ \A k \in StartRequests(node_name(R[i].component)) :
                               IF R[i].multiprocessing
                               THEN /\ ents[k].type = "LifecycleTransition"
                                    /\ ents[k].transitions
                                           = << "configure", "activate" >>
                               ELSE /\ ents[k].type = "OpaqueFunction"
                                    /\ ents[k].action = "start"
                   ELSE StartRequests(node_name(R[i].component)) = {}

\* C24: an add_pkg call that raises InvalidAction leaves the component list,
\* the topology list, the activation set and the three tables as they were.
C24_InvalidActionLeavesStateUnchanged ==
    [][(/\ calls' = calls + 1
        /\ last'.op = "add_pkg"
        /\ last'.error.raised = "InvalidAction")
       => /\ Components' = Components
          /\ UNCHANGED << pkg_executable, components_to_activate_on_start,
                          ros_actions, components_actions, monitor_actions >>
      ]_vars

\* C25: every component of the activation set is a registered component,
\* and its run-in-process flag says whether its entry of the topology list
\* has a package and an entry point.
C25_ActivationFlagMatchesTopology ==
    \A k \in 1..Len(components_to_activate_on_start) :
        LET component == components_to_activate_on_start[k].key
            run_in_process_flag == components_to_activate_on_start[k].val
        IN  /\ component \in Range(Components)
            /\ \A i \in 1..Len(Components) :
                   (Components[i] = component /\ i <= Len(pkg_executable))
                   => (run_in_process_flag
                          <=> (/\ pkg_executable[i][1] # "None"
                               /\ pkg_executable[i][2] # "None"))

\* C26: the component list and the topology list have the same length, and
\* entry i of the topology list is the (package, entry point) pair of the
\* add_pkg call that registered component i.
C26_TopologyListAlignedWithComponents ==
    LET R == Registrations(history)
    IN  /\ Len(Components) = Len(pkg_executable)
        /\ Len(Components) = Len(R)
        /\ \A i \in 1..Len(R) :
               /\ Components[i] = R[i].component
               /\ pkg_executable[i] =
                      IF R[i].multiprocessing
                      THEN << R[i].package_name, R[i].executable_entry_point >>
                      ELSE << "None", "None" >>

====
